---- MODULE Spec2Model ----
(***************************************************************************)
(* A model of the composite processors of the pipeline package: Fanout,    *)
(* Sequential and Parallel (src/stats.go, second half), run once on a      *)
(* pipeline input fed by a caller and a pipeline output read by a          *)
(* consumer.  Every goroutine of Execute is a task; every channel          *)
(* operation (send, receive, close) and every join is a step.              *)
(***************************************************************************)
EXTENDS Integers, Sequences, FiniteSets, Bags, TLC

\* The longest pipeline input the caller writes.
MaxLen == 2

\* Capacity of a Fanout child's input and output channel.  The code makes
\* them with capacity 200 (src/stats.go:288-289); the model scales the
\* capacity down so that a full channel is reached with short inputs.
ProcChanCap == 1

\* The longest pipeline input in the runs with two concurrent Execute calls.
RaceLen == 1

\* The most children of a node of a descriptor.
MaxKids == 2

\* The most calls of statistics hooks in a run of hook calls.
MaxCalls == 3

\* len() of a slice field that no code allocates: Parallel.procChans is
\* declared (src/stats.go:258) and never made, so it is nil.
NilSliceLen == 0

VARIABLES
    tree,        \* the processor tree the caller built; node 1 is the root
    input,       \* the sequence the caller writes to the pipeline input
    chans,       \* allocated channels: id -> [buf, closed, cap]
    tasks,       \* spawned goroutines: id -> [pc, todo, k]
    wg,          \* sync.WaitGroup `wg` of each composite's Execute
    collectorWg, \* sync.WaitGroup `collectorWg` of each Fanout's Execute
    slots,       \* len() of each composite's per-execution channel slice
    panic,       \* "none", or the runtime panic that ended the program
    sent,        \* history: the values sent on each channel, in order
    got,         \* history: the values each task received, in order
    closers,     \* history: the tasks that closed each channel, in order
    ctx,         \* the context: cancellation, log level, statistics store
    stats,       \* the StatDB's items: processor -> counters
    logged,      \* lines Log has printed for each processor
    fields,      \* procInChans / procOutChans of each composite instance
    arrays,      \* the slices made by each Execute
    descriptor,  \* the SerializedPipeline given to Pipeline()
    built,       \* what Pipeline() returned
    calls        \* history: the statistics hooks a leaf has called, in order

vars == <<tree, input, chans, tasks, wg, collectorWg, slots, panic, sent, got, closers,
          ctx, stats, logged, fields, arrays, descriptor, built, calls>>

-----------------------------------------------------------------------------
\* The context

\* context.Background(): not cancelled, no value under any key (the value
\* under a key is <<>> for nil, <<v>> for v).
Background == [cancelled |-> FALSE, statDB |-> <<>>, logLevel |-> <<>>]

\* WithStats(ctx, sdb): the store is registered under PipelineStatDB.
WithStats(c) == [c EXCEPT !.statDB = <<"sdb">>]

\* `statDB, ok := ctx.Value(PipelineStatDB).(*StatDB[E])`
HasStatDB == ctx.statDB # <<>>

\* Cancelled(ctx, p): ctx.Err() is non-nil.  Leaves ask it; no composite does.
Cancelled == ctx.cancelled

\* The two log levels: the second is iota in a const declaration of its
\* own, where iota is 0.
PipelineLogLevelDisabled == 0

PipelineLogLevelDebug == 0

\* WithLogLevel(ctx, level): the level is stored under PipeLineLogLevel.
WithLogLevel(c, level) == [c EXCEPT !.logLevel = <<level>>]

\* Log(ctx, proc, ...): a line is printed when the value under
\* PipeLineLogLevel equals PipelineLogLevelDebug; nil equals no int.  The
\* result is the lines printed so far for each processor.
Log(p) ==
    IF ctx.logLevel = <<PipelineLogLevelDebug>>
    THEN [logged EXCEPT ![p] = @ + 1]
    ELSE logged

-----------------------------------------------------------------------------
\* The statistics store.  Started and Finished are times in the code; the
\* model keeps how many times each was set.

NewStats == [Input |-> 0, Output |-> 0, Passthrough |-> 0, Failed |-> 0,
             Started |-> 0, Finished |-> 0]

\* getStats: the processor's entry, made on first use.
getStats(db, p) == IF p \in DOMAIN db THEN db[p] ELSE NewStats

Stored(db, p, st) == [q \in DOMAIN db \cup {p} |-> IF q = p THEN st ELSE db[q]]

trackStarted(db, p) == Stored(db, p, [getStats(db, p) EXCEPT !.Started = @ + 1])

trackFinished(db, p) == Stored(db, p, [getStats(db, p) EXCEPT !.Finished = @ + 1])

trackInput(db, p) == Stored(db, p, [getStats(db, p) EXCEPT !.Input = @ + 1])

trackOutput(db, p) == Stored(db, p, [getStats(db, p) EXCEPT !.Output = @ + 1])

trackPassthrough(db, p) == Stored(db, p, [getStats(db, p) EXCEPT !.Passthrough = @ + 1])

\* The hooks: what the store is after the call; no store, no effect.
TrackStarted(p) == IF HasStatDB THEN trackStarted(stats, p) ELSE stats

TrackFinished(p) == IF HasStatDB THEN trackFinished(stats, p) ELSE stats

TrackInput(p) == IF HasStatDB THEN trackInput(stats, p) ELSE stats

TrackOutput(p) == IF HasStatDB THEN trackOutput(stats, p) ELSE stats

\* TrackPassthrough ends in `statDB.trackOutput(processor)`.
TrackPassthrough(p) == IF HasStatDB THEN trackOutput(stats, p) ELSE stats

-----------------------------------------------------------------------------
\* The processor tree

\* A leaf that keeps the Processor contract.
Leaf(e) == [kind |-> "leaf", kids |-> <<>>, emit |-> e, mode |-> "contract", inst |-> 0]

\* A leaf that also honours cancellation: once it sees the context
\* cancelled it stops sending, closes its output and returns.
CancellableLeaf(e) == [kind |-> "leaf", kids |-> <<>>, emit |-> e, mode |-> "honours", inst |-> 0]

\* A leaf that honours cancellation and the contract: it asks Cancelled once
\* per item and sends nothing once the context is cancelled, but keeps
\* reading its input until it is closed, then closes its output.
DrainingLeaf(e) == [kind |-> "leaf", kids |-> <<>>, emit |-> e, mode |-> "drains", inst |-> 0]

\* A leaf that never closes its output.
StuckLeaf(e) == [kind |-> "leaf", kids |-> <<>>, emit |-> e, mode |-> "stuck", inst |-> 0]

Composite(k, ks) == [kind |-> k, kids |-> ks, emit |-> "none", mode |-> "none", inst |-> 0]

\* The same composite instance once more: in Go, the pointer that node i
\* holds, put a second time into a Processors slice.  Each occurrence is
\* its own node (its own Execute call) with its own nodes for the children.
Again(k, ks, i) == [kind |-> k, kids |-> ks, emit |-> "none", mode |-> "none", inst |-> i]

Root == 1

Nodes == DOMAIN tree

Kids(n) == tree[n].kids

NumKids(n) == Len(tree[n].kids)

IsComposite(n) == tree[n].kind \in {"fanout", "sequential", "parallel"}

\* The composite instance whose Execute node n is a call of.
Inst(n) == IF tree[n].inst = 0 THEN n ELSE tree[n].inst

\* What a leaf writes to its output for one item it reads.
LeafEmit(e, x) ==
    CASE e = "pass" -> <<x>>
      [] e = "add1" -> <<x + 1>>
      [] e = "add10" -> <<x + 10>>
      [] e = "add20" -> <<x + 20>>
      [] e = "dup" -> <<x, x>>
      [] e = "drop" -> <<>>

-----------------------------------------------------------------------------
\* Channels and tasks

Ch(t, n, i) == [t |-> t, n |-> n, i |-> i]

RootIn == Ch("input", 0, 0)

RootOut == Ch("output", 0, 0)

NoChan == Ch("nil", 0, 0)

T(r, n, i) == [r |-> r, n |-> n, i |-> i]

Producer == T("producer", 0, 0)

Consumer == T("consumer", 0, 0)

Exec(n) == T("exec", n, 0)

NewChan(c) == [buf |-> <<>>, closed |-> FALSE, cap |-> c]

\* A goroutine: where it is, the sends or closes it still has to do, its
\* loop index, the channels it captured (for an Execute: its input and
\* output arguments) and the composite whose wait group it is counted in.
NewTask(p, td, i, o, g) == [pc |-> p, todo |-> td, k |-> 1, in |-> i, out |-> o, grp |-> g]

Op(c, v) == [ch |-> c, v |-> v]

\* The channels `procInput` and `procOutput` that round i of the loop of
\* Execute of n makes.
ProcInput(n, i) == Ch("procInput", n, i)

ProcOutput(n, i) == Ch("procOutput", n, i)

\* An element of a slice: its value is read when the element is used.
Slot(f, a, i) == Ch(f, a, i)

\* The channel an operand stands for: a slot holds NoChan (nil) until a
\* channel is stored in it.
Deref(c) ==
    CASE c.t = "inSlot" -> arrays[c.n].in[c.i]
      [] c.t = "outSlot" -> arrays[c.n].out[c.i]
      [] OTHER -> c

\* A slice of n nil channels: `make([]chan E, n)`.
MakeSlice(n) == [i \in 1..n |-> NoChan]

\* `fanout.procInChans[i]`, `chain.procOutChans[i]`: the field of the
\* instance is read, then the element of the slice it holds.
ProcInChans(n, i) ==
    LET a == fields[Inst(n)].in
    IN  IF a = 0 THEN NoChan ELSE arrays[a].in[i]

\* A procOutChans kept in one place for all instances.
ProcOutChansOfRoot(n, i) ==
    LET a == fields[Root].out
    IN  IF a = 0 THEN NoChan ELSE arrays[a].out[i]

ProcOutChans(n, i) ==
    LET a == fields[Inst(n)].out
    IN  IF a = 0 THEN NoChan ELSE arrays[a].out[i]

\* `range fanout.procInChans`: the slice the field holds when the loop
\* starts, element by element.
RangeProcInChans(n) ==
    LET a == fields[Inst(n)].in
    IN  IF a = 0 THEN <<>> ELSE [i \in 1..Len(arrays[a].in) |-> Slot("inSlot", a, i)]

EntryChannel(n) == Ch("entryChannel", n, 0)

Collector(n) == Ch("fanoutCollector", n, 0)

-----------------------------------------------------------------------------
\* What each goroutine writes and closes

\* A leaf that keeps the Processor contract writes its results for m to
\* its output.
LeafSends(t, m) ==
    LET res == IF tree[t.n].mode = "drains" /\ Cancelled THEN <<>>
               ELSE LeafEmit(tree[t.n].emit, m)
    IN  [j \in 1..Len(res) |-> Op(tasks[t].out, res[j])]

\* A collector that writes every item twice.
CollectorSendsTwice(t, m) == <<Op(tasks[t].out, m), Op(tasks[t].out, m)>>

\* Fanout's collector task: `output <- m`.
CollectorSends(t, m) == <<Op(tasks[t].out, m)>>

\* The per-child merge task: `fanoutCollector <- m` in Fanout, `output <- m`
\* in Parallel.
MergeSends(t, m) == <<Op(tasks[t].out, m)>>

\* A dispatcher that writes to the first child only.
DispatcherSendsFirst(t, m) == <<Op(ProcInChans(t.n, 1), m)>>

\* A dispatcher that writes to the children from the last to the first.
DispatcherSendsLastFirst(t, m) ==
    [i \in 1..slots[t.n] |-> Op(ProcInChans(t.n, slots[t.n] + 1 - i), m)]

\* Fanout's dispatcher: `for _, procInput := range fanout.procInChans { procInput <- msg }`.
DispatcherSends(t, m) ==
    [i \in 1..Len(RangeProcInChans(t.n)) |-> Op(RangeProcInChans(t.n)[i], m)]

\* A feeder that writes every item twice.
FeederSendsTwice(t, m) == <<Op(tasks[t].out, m), Op(tasks[t].out, m)>>

\* Sequential's feeder: `entryChannel <- msg`.
FeederSends(t, m) == <<Op(tasks[t].out, m)>>

\* Sequential's drain task: `output <- m`.
DrainSends(t, m) == <<Op(tasks[t].out, m)>>

\* The sends a task issues for one received item m, in order.
Plan(t, m) ==
    CASE t.r = "exec" -> LeafSends(t, m)
      [] t.r = "collector" -> CollectorSends(t, m)
      [] t.r = "merge" -> MergeSends(t, m)
      [] t.r = "dispatcher" -> DispatcherSends(t, m)
      [] t.r = "feeder" -> FeederSends(t, m)
      [] t.r = "drain" -> DrainSends(t, m)
      [] t.r = "consumer" -> <<>>

\* A leaf closes its output when its input is closed and drained.
LeafCloses(t) == <<Op(tasks[t].out, 0)>>

\* A dispatcher that leaves the children's inputs open.
DispatcherClosesNone(t) == <<>>

\* Fanout's dispatcher: `for _, procInput := range fanout.procInChans { close(procInput) }`.
DispatcherCloses(t) ==
    [i \in 1..Len(RangeProcInChans(t.n)) |-> Op(RangeProcInChans(t.n)[i], 0)]

\* A feeder that also closes the input it reads.
FeederClosesInput(t) == <<Op(tasks[t].in, 0), Op(tasks[t].out, 0)>>

\* A feeder that leaves the entry channel open.
FeederClosesNone(t) == <<>>

\* Sequential's feeder: `close(entryChannel)`.
FeederCloses(t) == <<Op(tasks[t].out, 0)>>

\* The caller closes the pipeline input when all data is written.
ProducerCloses == <<Op(RootIn, 0)>>

\* The channels a task closes once its range loop ends, in order.
Closes(t) ==
    CASE t.r = "exec" -> LeafCloses(t)
      [] t.r = "dispatcher" -> DispatcherCloses(t)
      [] t.r = "feeder" -> FeederCloses(t)
      [] t.r = "producer" -> ProducerCloses
      [] OTHER -> <<>>

\* The caller's writes of the whole input.
ProducerSends(s) == [j \in 1..Len(s) |-> Op(RootIn, s[j])]

\* Execute of a leaf that never closes its output.
IsStuck(t) == t.r = "exec" /\ tree[t.n].mode = "stuck"

\* Where a task goes when its pending sends or its range loop are over.
AfterLoop(t) ==
    IF IsStuck(t) THEN "hung"
    ELSE IF Len(Closes(t)) = 0 THEN "fin" ELSE "close"

AfterSends(t) == IF t.r = "producer" THEN AfterLoop(t) ELSE "recv"

AfterSendsTodo(t) == IF t.r = "producer" THEN Closes(t) ELSE <<>>

\* The goroutine that calls Execute(ctx, i, o) of node n for composite g.
ExecTask(n, i, o, g) ==
    NewTask(IF IsComposite(n) THEN "start" ELSE "recv", <<>>, i, o, g)

\* A goroutine that ranges over channel i and forwards to channel o.
Forwarder(i, o, g) == NewTask("recv", <<>>, i, o, g)

Running == panic = "none"

Spawned(t) == t \in DOMAIN tasks

Allocated(c) == c \in DOMAIN chans

-----------------------------------------------------------------------------
\* Channel operations of the Go runtime

\* A round of a loop over a slice begins by reading the element: the
\* operation at the head of the list gets the channel its slot holds now.
NextRound(ops) ==
    IF Len(ops) = 0 THEN ops
    ELSE <<[Head(ops) EXCEPT !.ch = Deref(Head(ops).ch)]>> \o Tail(ops)

\* The task's state once the send at the head of its todo list is done.
Advance(t) ==
    LET rest == Tail(tasks[t].todo)
    IN  IF Len(rest) > 0 THEN [tasks[t] EXCEPT !.todo = NextRound(rest)]
        ELSE [tasks[t] EXCEPT !.pc = AfterSends(t), !.todo = AfterSendsTodo(t)]

\* The task's state once it has received m from the channel it ranges over.
Received(t, m) ==
    LET plan == Plan(t, m)
    IN  IF Len(plan) > 0 THEN [tasks[t] EXCEPT !.pc = "send", !.todo = NextRound(plan)]
        ELSE tasks[t]

\* The task's state once its range loop has ended.
LoopEnded(t) ==
    [tasks[t] EXCEPT !.pc = AfterLoop(t),
                     !.todo = IF IsStuck(t) THEN <<>> ELSE NextRound(Closes(t))]

\* The store once task t has taken an item in its range loop: the
\* dispatcher and the feeder call TrackInput, the tasks that write to the
\* composite's output call TrackOutput, each for its composite.
AfterReceive(t) ==
    CASE t.r \in {"dispatcher", "feeder"} -> TrackInput(Inst(t.n))
      [] t.r \in {"collector", "drain"} -> TrackOutput(Inst(t.n))
      [] t.r = "merge" /\ tree[t.n].kind = "parallel" -> TrackOutput(Inst(t.n))
      [] OTHER -> stats

\* The value a receive takes out of a channel's buffer, and what is left.
Dequeued(buf) == Head(buf)

Remaining(buf) == Tail(buf)

\* `ch <- v` on a closed channel panics; on a buffered channel with room it
\* appends v to the buffer.  (A send on an unbuffered channel is Rendezvous.)
TaskSend(t) ==
    /\ Running
    /\ Spawned(t)
    /\ tasks[t].pc = "send"
    /\ Allocated(Deref(Head(tasks[t].todo).ch))
    /\ LET e == Head(tasks[t].todo)
           ch == Deref(e.ch)
           c == chans[ch]
       IN  IF c.closed
           THEN /\ panic' = "send on closed channel"
                /\ UNCHANGED <<chans, tasks, sent>>
           ELSE /\ Len(c.buf) < c.cap
                /\ chans' = [chans EXCEPT ![ch].buf = Append(@, e.v)]
                /\ sent' = [sent EXCEPT ![ch] = Append(@, e.v)]
                /\ tasks' = [tasks EXCEPT ![t] = Advance(t)]
                /\ UNCHANGED panic
    /\ UNCHANGED <<ctx, stats, logged, fields, arrays, descriptor, built, calls>>
    /\ UNCHANGED <<tree, input, wg, collectorWg, slots, got, closers>>

\* A receive in a range loop: takes the oldest buffered value, or ends the
\* loop when the channel is closed and empty.
TaskRecv(t) ==
    /\ Running
    /\ Spawned(t)
    /\ tasks[t].pc = "recv"
    /\ Allocated(tasks[t].in)
    /\ LET c == chans[tasks[t].in]
       IN  IF Len(c.buf) > 0
           THEN /\ chans' = [chans EXCEPT ![tasks[t].in].buf = Remaining(c.buf)]
                /\ got' = [got EXCEPT ![t] = Append(@, Dequeued(c.buf))]
                /\ tasks' = [tasks EXCEPT ![t] = Received(t, Dequeued(c.buf))]
                /\ stats' = AfterReceive(t)
           ELSE /\ c.closed
                /\ tasks' = [tasks EXCEPT ![t] = LoopEnded(t)]
                /\ UNCHANGED <<chans, got, stats>>
    /\ UNCHANGED <<ctx, logged, fields, arrays, descriptor, built, calls>>
    /\ UNCHANGED <<tree, input, wg, collectorWg, slots, panic, sent, closers>>

\* An unbuffered channel hands a value from a blocked sender to a blocked
\* receiver in one step.
Rendezvous(s, r) ==
    /\ Running
    /\ Spawned(s) /\ Spawned(r)
    /\ tasks[s].pc = "send"
    /\ tasks[r].pc = "recv"
    /\ LET e == Head(tasks[s].todo)
           ch == Deref(e.ch)
       IN  /\ ch = tasks[r].in
           /\ Allocated(ch)
           /\ chans[ch].cap = 0
           /\ ~chans[ch].closed
           /\ sent' = [sent EXCEPT ![ch] = Append(@, e.v)]
           /\ got' = [got EXCEPT ![r] = Append(@, e.v)]
           /\ tasks' = [tasks EXCEPT ![s] = Advance(s), ![r] = Received(r, e.v)]
    /\ stats' = AfterReceive(r)
    /\ UNCHANGED <<ctx, logged, fields, arrays, descriptor, built, calls>>
    /\ UNCHANGED <<tree, input, chans, wg, collectorWg, slots, panic, closers>>

\* close(c) by task t: closing a nil channel or a closed channel panics.
CloseBy(t, c) ==
    IF ~Allocated(c)
    THEN /\ panic' = "close of nil channel"
         /\ UNCHANGED <<chans, closers>>
    ELSE IF chans[c].closed
    THEN /\ panic' = "close of closed channel"
         /\ UNCHANGED <<chans, closers>>
    ELSE /\ chans' = [chans EXCEPT ![c].closed = TRUE]
         /\ closers' = [closers EXCEPT ![c] = Append(@, t)]
         /\ UNCHANGED panic

\* The next close of a task whose range loop has ended.
TaskClose(t) ==
    /\ Running
    /\ Spawned(t)
    /\ tasks[t].pc = "close"
    /\ CloseBy(t, Deref(Head(tasks[t].todo).ch))
    /\ tasks' = [tasks EXCEPT ![t] =
                    IF panic' # "none" THEN tasks[t]
                    ELSE IF Len(tasks[t].todo) > 1
                         THEN [tasks[t] EXCEPT !.todo = NextRound(Tail(tasks[t].todo))]
                    ELSE [tasks[t] EXCEPT !.pc = "fin", !.todo = <<>>]]
    /\ UNCHANGED <<ctx, stats, logged, fields, arrays, descriptor, built, calls>>
    /\ UNCHANGED <<tree, input, wg, collectorWg, slots, sent, got>>

\* The end of a goroutine: wg.Done() on the wait group it was added to.  A
\* child's Execute returns to the goroutine that called it, which then calls
\* wg.Done() of the parent.
TaskFinish(t) ==
    /\ Running
    /\ Spawned(t)
    /\ tasks[t].pc = "fin"
    /\ tasks' = [tasks EXCEPT ![t].pc = "done"]
    /\ wg' = IF t.r # "collector" /\ tasks[t].grp # 0
                THEN [wg EXCEPT ![tasks[t].grp] = @ - 1]
             ELSE wg
    /\ collectorWg' = IF t.r = "collector"
                         THEN [collectorWg EXCEPT ![tasks[t].grp] = @ - 1]
                      ELSE collectorWg
    /\ UNCHANGED <<ctx, stats, logged, fields, arrays, descriptor, built, calls>>
    /\ UNCHANGED <<tree, input, chans, slots, panic, sent, got, closers>>

-----------------------------------------------------------------------------
\* Cancellation

\* The caller cancels the context: ctx.Err() is non-nil from now on.
Cancel ==
    /\ Running
    /\ ~ctx.cancelled
    /\ ctx' = [ctx EXCEPT !.cancelled = TRUE]
    /\ UNCHANGED <<stats, logged, fields, arrays, descriptor, built, calls>>
    /\ UNCHANGED <<tree, input, chans, tasks, wg, collectorWg, slots, panic, sent, got, closers>>

\* A leaf that honours cancellation finds Cancelled(ctx, p) true: it gives
\* up the sends it has left, reads no more input, closes its output and
\* returns.  Cancelled logs the stop.
LeafCancels(t) ==
    /\ Running
    /\ Spawned(t)
    /\ t.r = "exec"
    /\ tree[t.n].mode = "honours"
    /\ Cancelled
    /\ tasks[t].pc \in {"recv", "send"}
    /\ tasks' = [tasks EXCEPT ![t] = [tasks[t] EXCEPT !.pc = "close", !.todo = LeafCloses(t)]]
    /\ logged' = Log(Inst(t.n))
    /\ UNCHANGED <<ctx, stats, fields, arrays, descriptor, built, calls>>
    /\ UNCHANGED <<tree, input, chans, wg, collectorWg, slots, panic, sent, got, closers>>

\* A stuck leaf stops for good wherever it is.
LeafHangs(t) ==
    /\ Running
    /\ Spawned(t)
    /\ IsStuck(t)
    /\ tasks[t].pc \in {"recv", "send"}
    /\ tasks' = [tasks EXCEPT ![t] = [tasks[t] EXCEPT !.pc = "hung", !.todo = <<>>]]
    /\ UNCHANGED <<ctx, stats, logged, fields, arrays, descriptor, built, calls>>
    /\ UNCHANGED <<tree, input, chans, wg, collectorWg, slots, panic, sent, got, closers>>

-----------------------------------------------------------------------------
\* Execute of the three composites

\* An Execute that lacks the zero-children branch.
NoShortCircuit(n) == FALSE

\* `if len(Processors) == 0 { close(output); return }`
ShortCircuit(n) == NumKids(n) = 0

\* A wg.Wait() that does not wait.
WaitReturnsAtOnce(n) == TRUE

\* A wg.Wait() that gives up once the context is cancelled.
WaitReturnsOnCancel(n) == wg[n] = 0 \/ ctx.cancelled

\* wg.Wait() returns when the counter is zero.
WaitReturns(n) == wg[n] = 0

\* A collectorWg.Wait() that does not wait.
CollectorWaitReturnsAtOnce(n) == TRUE

\* collectorWg.Wait() returns when the counter is zero.
CollectorWaitReturns(n) == collectorWg[n] = 0

AtPc(n, kinds, pc) ==
    /\ Running
    /\ n \in Nodes
    /\ tree[n].kind \in kinds
    /\ Spawned(Exec(n))
    /\ tasks[Exec(n)].pc = pc

\* Execute closes its output and returns.
CloseOutputAndReturn(n) ==
    /\ CloseBy(Exec(n), tasks[Exec(n)].out)
    /\ tasks' = [tasks EXCEPT ![Exec(n)].pc = IF panic' # "none" THEN @ ELSE "fin"]

\* Fanout.Execute up to the loop over the children: the short circuit, the
\* two slices, the collector channel and the task that drains it.
FanoutStart(n) ==
    /\ AtPc(n, {"fanout"}, "start")
    /\ logged' = Log(Inst(n))
    /\ stats' = TrackStarted(Inst(n))
    /\ IF ShortCircuit(n)
       THEN /\ CloseOutputAndReturn(n)
            /\ UNCHANGED <<slots, collectorWg, sent, got, fields, arrays>>
       ELSE /\ slots' = [slots EXCEPT ![n] = NumKids(n)]
            /\ arrays' = [arrays EXCEPT ![n] = [in |-> MakeSlice(NumKids(n)),
                                                out |-> MakeSlice(NumKids(n))]]
            /\ fields' = [fields EXCEPT ![Inst(n)] = [in |-> n, out |-> n]]
            /\ chans' = chans @@ (Collector(n) :> NewChan(0))
            /\ sent' = sent @@ (Collector(n) :> <<>>)
            /\ closers' = closers @@ (Collector(n) :> <<>>)
            /\ collectorWg' = [collectorWg EXCEPT ![n] = @ + 1]
            /\ tasks' = [tasks EXCEPT ![Exec(n)].pc = "spawn"]
                           @@ (T("collector", n, 0) :> Forwarder(Collector(n), tasks[Exec(n)].out, n))
            /\ got' = got @@ (T("collector", n, 0) :> <<>>)
            /\ UNCHANGED panic
    /\ UNCHANGED <<ctx, descriptor, built, calls>>
    /\ UNCHANGED <<tree, input, wg>>

\* One round of Fanout's loop over the children: the child's two channels,
\* the goroutine that runs the child and the one that merges its output.
FanoutSpawn(n) ==
    /\ AtPc(n, {"fanout"}, "spawn")
    /\ LET i == tasks[Exec(n)].k
           pin == ProcInput(n, i)
           pout == ProcOutput(n, i)
       IN  /\ chans' = chans @@ (pin :> NewChan(ProcChanCap)) @@ (pout :> NewChan(ProcChanCap))
           /\ sent' = sent @@ (pin :> <<>>) @@ (pout :> <<>>)
           /\ closers' = closers @@ (pin :> <<>>) @@ (pout :> <<>>)
           /\ IF i > slots[n]
              THEN /\ panic' = "index out of range"
                   /\ UNCHANGED <<tasks, got, wg, arrays>>
              ELSE /\ arrays' = [arrays EXCEPT ![fields[Inst(n)].in].in[i] = pin,
                                               ![fields[Inst(n)].out].out[i] = pout]
                   /\ wg' = [wg EXCEPT ![n] = @ + 2]
                   /\ tasks' = [tasks EXCEPT ![Exec(n)] =
                                   [tasks[Exec(n)] EXCEPT !.k = i + 1,
                                             !.pc = IF i = NumKids(n) THEN "spawned" ELSE "spawn"]]
                                  @@ (Exec(Kids(n)[i]) :> ExecTask(Kids(n)[i], pin, pout, n))
                                  @@ (T("merge", n, i) :> Forwarder(pout, Collector(n), n))
                   /\ got' = got @@ (Exec(Kids(n)[i]) :> <<>>) @@ (T("merge", n, i) :> <<>>)
                   /\ UNCHANGED panic
    /\ UNCHANGED <<ctx, stats, logged, fields, descriptor, built, calls>>
    /\ UNCHANGED <<tree, input, collectorWg, slots>>

\* Fanout spawns its dispatcher.
FanoutDispatch(n) ==
    /\ AtPc(n, {"fanout"}, "spawned")
    /\ wg' = [wg EXCEPT ![n] = @ + 1]
    /\ tasks' = [tasks EXCEPT ![Exec(n)].pc = "wait"]
                   @@ (T("dispatcher", n, 0) :> Forwarder(tasks[Exec(n)].in, NoChan, n))
    /\ got' = got @@ (T("dispatcher", n, 0) :> <<>>)
    /\ UNCHANGED <<ctx, stats, logged, fields, arrays, descriptor, built, calls>>
    /\ UNCHANGED <<tree, input, chans, collectorWg, slots, panic, sent, closers>>

\* `wg.Wait(); close(fanoutCollector)`
FanoutJoin(n) ==
    /\ AtPc(n, {"fanout"}, "wait")
    /\ WaitReturns(n)
    /\ CloseBy(Exec(n), Collector(n))
    /\ tasks' = [tasks EXCEPT ![Exec(n)].pc = IF panic' # "none" THEN @ ELSE "waitCollector"]
    /\ UNCHANGED <<ctx, stats, logged, fields, arrays, descriptor, built, calls>>
    /\ UNCHANGED <<tree, input, wg, collectorWg, slots, sent, got>>

\* `collectorWg.Wait(); TrackFinished; close(output)` and the return.
FanoutClose(n) ==
    /\ AtPc(n, {"fanout"}, "waitCollector")
    /\ CollectorWaitReturns(n)
    /\ stats' = TrackFinished(Inst(n))
    /\ CloseOutputAndReturn(n)
    /\ UNCHANGED <<ctx, logged, fields, arrays, descriptor, built, calls>>
    /\ UNCHANGED <<tree, input, wg, collectorWg, slots, sent, got>>

\* Sequential.Execute up to the loop over the children.
SequentialStart(n) ==
    /\ AtPc(n, {"sequential"}, "start")
    /\ logged' = Log(Inst(n))
    /\ stats' = TrackStarted(Inst(n))
    /\ IF ShortCircuit(n)
       THEN /\ CloseOutputAndReturn(n)
            /\ UNCHANGED <<slots, fields, arrays>>
       ELSE /\ slots' = [slots EXCEPT ![n] = NumKids(n)]
            /\ arrays' = [arrays EXCEPT ![n].out = MakeSlice(NumKids(n))]
            /\ fields' = [fields EXCEPT ![Inst(n)].out = n]
            /\ tasks' = [tasks EXCEPT ![Exec(n)].pc = "spawn"]
            /\ UNCHANGED <<chans, closers, panic>>
    /\ UNCHANGED <<ctx, descriptor, built, calls>>
    /\ UNCHANGED <<tree, input, wg, collectorWg, sent, got>>

\* One round of Sequential's loop: the entry channel for the first child,
\* the child's output channel, the goroutine that runs the child.
SequentialSpawn(n) ==
    /\ AtPc(n, {"sequential"}, "spawn")
    /\ LET i == tasks[Exec(n)].k
           pout == ProcOutput(n, i)
           entry == EntryChannel(n)
           pin == IF i = 1 THEN entry ELSE ProcOutChans(n, i - 1)
           made == IF i = 1 THEN (entry :> NewChan(0)) @@ (pout :> NewChan(0))
                   ELSE (pout :> NewChan(0))
       IN  /\ chans' = chans @@ made
           /\ sent' = sent @@ [c \in DOMAIN made |-> <<>>]
           /\ closers' = closers @@ [c \in DOMAIN made |-> <<>>]
           /\ IF i > slots[n]
              THEN /\ panic' = "index out of range"
                   /\ UNCHANGED <<tasks, got, wg, arrays>>
              ELSE /\ arrays' = [arrays EXCEPT ![fields[Inst(n)].out].out[i] = pout]
                   /\ wg' = [wg EXCEPT ![n] = @ + 1]
                   /\ tasks' = [tasks EXCEPT ![Exec(n)] =
                                   [tasks[Exec(n)] EXCEPT !.k = i + 1,
                                             !.pc = IF i = NumKids(n) THEN "spawned" ELSE "spawn"]]
                                  @@ (Exec(Kids(n)[i]) :> ExecTask(Kids(n)[i], pin, pout, n))
                   /\ got' = got @@ (Exec(Kids(n)[i]) :> <<>>)
                   /\ UNCHANGED panic
    /\ UNCHANGED <<ctx, stats, logged, fields, descriptor, built, calls>>
    /\ UNCHANGED <<tree, input, collectorWg, slots>>

\* Sequential spawns its feeder and its drain task.
SequentialTasks(n) ==
    /\ AtPc(n, {"sequential"}, "spawned")
    /\ wg' = [wg EXCEPT ![n] = @ + 2]
    /\ tasks' = [tasks EXCEPT ![Exec(n)].pc = "wait"]
                   @@ (T("feeder", n, 0) :> Forwarder(tasks[Exec(n)].in, EntryChannel(n), n))
                   @@ (T("drain", n, 0) :> Forwarder(ProcOutChans(n, NumKids(n)), tasks[Exec(n)].out, n))
    /\ got' = got @@ (T("feeder", n, 0) :> <<>>) @@ (T("drain", n, 0) :> <<>>)
    /\ UNCHANGED <<ctx, stats, logged, fields, arrays, descriptor, built, calls>>
    /\ UNCHANGED <<tree, input, chans, collectorWg, slots, panic, sent, closers>>

\* Parallel.Execute up to the loop over the children.  No slice is made:
\* procChans keeps the length the construction gave it.
ParallelStart(n) ==
    /\ AtPc(n, {"parallel"}, "start")
    /\ logged' = Log(Inst(n))
    /\ stats' = TrackStarted(Inst(n))
    /\ IF ShortCircuit(n)
       THEN CloseOutputAndReturn(n)
       ELSE /\ tasks' = [tasks EXCEPT ![Exec(n)].pc = "spawn"]
            /\ UNCHANGED <<chans, closers, panic>>
    /\ UNCHANGED <<ctx, fields, arrays, descriptor, built, calls>>
    /\ UNCHANGED <<tree, input, wg, collectorWg, slots, sent, got>>

\* One round of Parallel's loop: the child's output channel is made, then
\* stored in procChans[procIndex], which panics when the index is out of
\* range; then the child's goroutine and its merge task are spawned.
ParallelSpawn(n) ==
    /\ AtPc(n, {"parallel"}, "spawn")
    /\ LET i == tasks[Exec(n)].k
           pout == ProcOutput(n, i)
           pin == tasks[Exec(n)].in
       IN  /\ chans' = chans @@ (pout :> NewChan(0))
           /\ sent' = sent @@ (pout :> <<>>)
           /\ closers' = closers @@ (pout :> <<>>)
           /\ IF i > slots[n]
              THEN /\ panic' = "index out of range"
                   /\ UNCHANGED <<tasks, got, wg>>
              ELSE /\ wg' = [wg EXCEPT ![n] = @ + 2]
                   /\ tasks' = [tasks EXCEPT ![Exec(n)] =
                                   [tasks[Exec(n)] EXCEPT !.k = i + 1,
                                             !.pc = IF i = NumKids(n) THEN "wait" ELSE "spawn"]]
                                  @@ (Exec(Kids(n)[i]) :> ExecTask(Kids(n)[i], pin, pout, n))
                                  @@ (T("merge", n, i) :> Forwarder(pout, tasks[Exec(n)].out, n))
                   /\ got' = got @@ (Exec(Kids(n)[i]) :> <<>>) @@ (T("merge", n, i) :> <<>>)
                   /\ UNCHANGED panic
    /\ UNCHANGED <<ctx, stats, logged, fields, arrays, descriptor, built, calls>>
    /\ UNCHANGED <<tree, input, collectorWg, slots>>

\* `wg.Wait(); TrackFinished; close(output)` and the return, the same lines
\* in Sequential.Execute and in Parallel.Execute.
JoinAndClose(n) ==
    /\ AtPc(n, {"sequential", "parallel"}, "wait")
    /\ WaitReturns(n)
    /\ stats' = TrackFinished(Inst(n))
    /\ CloseOutputAndReturn(n)
    /\ UNCHANGED <<ctx, logged, fields, arrays, descriptor, built, calls>>
    /\ UNCHANGED <<tree, input, wg, collectorWg, slots, sent, got>>

-----------------------------------------------------------------------------
\* The runs checked

Kinds == {"fanout", "sequential", "parallel"}

\* A composite of kind k over the leaves es.
Flat(k, es) ==
    <<Composite(k, [i \in 1..Len(es) |-> i + 1])>> \o [i \in 1..Len(es) |-> Leaf(es[i])]

\* The leaves given to the flat trees: none, one, two.
LeafRows ==
    {<<>>, <<"pass">>, <<"dup">>,
     <<"pass", "pass">>, <<"add10", "add20">>, <<"dup", "drop">>}

FlatTrees ==
    {Flat(k, es) : k \in Kinds, es \in LeafRows}
        \cup {Flat("sequential", <<"add1", "add1">>), Flat("sequential", <<"add1", "dup">>)}

\* A leaf run directly, with no composite around it.
LeafTrees == {<<Leaf(e)>> : e \in {"pass", "dup"}}

\* Composites inside composites.
NestedTrees ==
    {<<Composite("sequential", <<2, 3>>), Composite("fanout", <<4>>), Leaf("add1"), Leaf("pass")>>,
     <<Composite("fanout", <<2>>), Composite("sequential", <<3>>), Leaf("add1")>>,
     <<Composite("fanout", <<2>>), Composite("fanout", <<3>>), Leaf("pass")>>,
     <<Composite("sequential", <<2>>), Composite("sequential", <<3>>), Leaf("add1")>>,
     <<Composite("sequential", <<2>>), Composite("parallel", <<3>>), Leaf("pass")>>,
     <<Composite("fanout", <<2>>), Composite("sequential", <<>>)>>}

Topologies == FlatTrees \cup LeafTrees \cup NestedTrees

\* The inputs: 1, 2, ..., n, all distinct.
Inputs == {[i \in 1..n |-> i] : n \in 0..MaxLen}

\* The state once the caller has built the tree, made the pipeline input
\* and output, and started the root's Execute, its producer and its consumer.
InitIn(trees, inputs, c, h) ==
    /\ tree \in trees
    /\ input \in inputs
    /\ chans = (RootIn :> NewChan(MaxLen)) @@ (RootOut :> NewChan(0))
    /\ tasks = (Producer :> NewTask(IF Len(input) > 0 THEN "send" ELSE "close",
                                    IF Len(input) > 0 THEN ProducerSends(input)
                                    ELSE ProducerCloses, NoChan, RootIn, 0))
               @@ (Consumer :> Forwarder(RootOut, NoChan, 0))
               @@ (Exec(Root) :> ExecTask(Root, RootIn, RootOut, 0))
    /\ wg = [n \in DOMAIN tree |-> 0]
    /\ collectorWg = [n \in DOMAIN tree |-> 0]
    /\ slots = [n \in DOMAIN tree |-> IF tree[n].kind = "parallel" THEN NilSliceLen ELSE 0]
    /\ panic = "none"
    /\ sent = (RootIn :> <<>>) @@ (RootOut :> <<>>)
    /\ got = (Producer :> <<>>) @@ (Consumer :> <<>>) @@ (Exec(Root) :> <<>>)
    /\ closers = (RootIn :> <<>>) @@ (RootOut :> <<>>)
    /\ ctx = c
    /\ stats = [n \in {} |-> 0]
    /\ logged = [n \in DOMAIN tree |-> 0]
    /\ fields = [n \in DOMAIN tree |-> [in |-> 0, out |-> 0]]
    /\ arrays = [n \in DOMAIN tree |-> [in |-> <<>>, out |-> <<>>]]
    /\ descriptor = "none"
    /\ built = "none"
    /\ calls = h

\* The same with a store registered in the context and no other value.
InitOf(trees, inputs) == InitIn(trees, inputs, WithStats(Background), <<>>)

InitWith(trees) == InitOf(trees, Inputs)

Init == InitWith(Topologies)

Next ==
    \/ \E t \in DOMAIN tasks : TaskSend(t)
    \/ \E t \in DOMAIN tasks : TaskRecv(t)
    \/ \E s \in DOMAIN tasks : \E r \in DOMAIN tasks : Rendezvous(s, r)
    \/ \E t \in DOMAIN tasks : TaskClose(t)
    \/ \E t \in DOMAIN tasks : TaskFinish(t)
    \/ \E n \in Nodes : FanoutStart(n)
    \/ \E n \in Nodes : FanoutSpawn(n)
    \/ \E n \in Nodes : FanoutDispatch(n)
    \/ \E n \in Nodes : FanoutJoin(n)
    \/ \E n \in Nodes : FanoutClose(n)
    \/ \E n \in Nodes : SequentialStart(n)
    \/ \E n \in Nodes : SequentialSpawn(n)
    \/ \E n \in Nodes : SequentialTasks(n)
    \/ \E n \in Nodes : ParallelStart(n)
    \/ \E n \in Nodes : ParallelSpawn(n)
    \/ \E n \in Nodes : JoinAndClose(n)

Spec == Init /\ [][Next]_vars

\* The runs whose termination is checked: one and two children, nested
\* composites, and a Parallel.
LiveTrees ==
    {Flat("fanout", <<"pass">>), Flat("fanout", <<"pass", "pass">>),
     Flat("sequential", <<"dup">>), Flat("sequential", <<"add1", "add1">>),
     Flat("parallel", <<"pass">>), Flat("parallel", <<"pass", "pass">>)}
        \cup {t \in NestedTrees : \A n \in DOMAIN t : t[n].kind = "leaf" \/ Len(t[n].kids) > 0}

LiveInit == InitWith(LiveTrees)

\* Two concurrent Execute calls by the caller: on one instance (the same
\* pointer) and on two instances.
TwoCalls(k, same) ==
    <<Composite(k, <<3>>),
      IF same THEN Again(k, <<4>>, 1) ELSE Composite(k, <<4>>),
      Leaf("pass"), Leaf("pass")>>

RaceTrees ==
    {TwoCalls(k, same) : k \in {"fanout", "sequential"}, same \in BOOLEAN}
        \cup {Flat("parallel", <<"pass">>)}

RaceInputs == {[i \in 1..n |-> i] : n \in 0..RaceLen}

\* The caller runs Execute on every node that is nobody's child.
Roots(tr) == {n \in DOMAIN tr : \A m \in DOMAIN tr : \A j \in 1..Len(tr[m].kids) : tr[m].kids[j] # n}

\* The pipeline input and output the caller gives to its call on root r.
InputOf(r) == IF r = Root THEN RootIn ELSE Ch("input", 0, r)

OutputOf(r) == IF r = Root THEN RootOut ELSE Ch("output", 0, r)

\* The caller has written `input` to the input of its first call and
\* closed it, closed the inputs of its other calls without writing, and
\* given every call an output with room for all it can be sent; then it
\* has started the calls, each in its goroutine.
RaceInit ==
    /\ tree \in RaceTrees
    /\ input \in RaceInputs
    /\ chans = [c \in {InputOf(r) : r \in Roots(tree)} |->
                    [buf |-> IF c = RootIn THEN input ELSE <<>>, closed |-> TRUE, cap |-> RaceLen]]
               @@ [c \in {OutputOf(r) : r \in Roots(tree)} |-> NewChan(2 * RaceLen)]
    /\ tasks = [t \in {Exec(r) : r \in Roots(tree)} |->
                    ExecTask(t.n, InputOf(t.n), OutputOf(t.n), 0)]
    /\ wg = [n \in DOMAIN tree |-> 0]
    /\ collectorWg = [n \in DOMAIN tree |-> 0]
    /\ slots = [n \in DOMAIN tree |-> IF tree[n].kind = "parallel" THEN NilSliceLen ELSE 0]
    /\ panic = "none"
    /\ sent = [c \in DOMAIN chans |-> IF c = RootIn THEN input ELSE <<>>]
    /\ got = [t \in DOMAIN tasks |-> <<>>]
    /\ closers = [c \in DOMAIN chans |-> IF c.t = "input" THEN <<Producer>> ELSE <<>>]
    /\ ctx = Background
    /\ stats = [n \in {} |-> 0]
    /\ logged = [n \in DOMAIN tree |-> 0]
    /\ fields = [n \in DOMAIN tree |-> [in |-> 0, out |-> 0]]
    /\ arrays = [n \in DOMAIN tree |-> [in |-> <<>>, out |-> <<>>]]
    /\ descriptor = "none"
    /\ built = "none"
    /\ calls = <<>>

RaceSpec == RaceInit /\ [][Next]_vars

\* Runs with cancellation: leaves that honour it under one and two levels
\* of composites, leaves that never close their output, and a Parallel.
CancelTrees ==
    {<<Composite("fanout", <<2>>), CancellableLeaf("pass")>>,
     <<Composite("sequential", <<2>>), CancellableLeaf("pass")>>,
     <<Composite("sequential", <<2, 3>>), CancellableLeaf("pass"), CancellableLeaf("add1")>>,
     <<Composite("fanout", <<2>>), Composite("sequential", <<3>>), CancellableLeaf("pass")>>,
     <<Composite("fanout", <<2>>), StuckLeaf("pass")>>,
     <<Composite("fanout", <<2, 3>>), Leaf("pass"), StuckLeaf("drop")>>,
     <<Composite("sequential", <<2>>), StuckLeaf("pass")>>,
     <<Composite("sequential", <<2, 3>>), StuckLeaf("drop"), Leaf("pass")>>,
     <<Composite("sequential", <<2>>), Composite("fanout", <<3>>), StuckLeaf("pass")>>,
     <<Composite("parallel", <<2>>), CancellableLeaf("pass")>>}

CancelInit == InitWith(CancelTrees)

CancelNext ==
    \/ Next
    \/ Cancel
    \/ \E t \in DOMAIN tasks : LeafCancels(t)
    \/ \E t \in DOMAIN tasks : LeafHangs(t)

CancelSpec == CancelInit /\ [][CancelNext]_vars

\* Runs with cancellation whose termination is checked.
CancelLiveTrees ==
    {<<Composite("fanout", <<2>>), DrainingLeaf("pass")>>,
     <<Composite("sequential", <<2, 3>>), DrainingLeaf("pass"), DrainingLeaf("add1")>>,
     <<Composite("fanout", <<2>>), Composite("sequential", <<3>>), DrainingLeaf("pass")>>,
     <<Composite("fanout", <<2>>), CancellableLeaf("pass")>>,
     <<Composite("sequential", <<2>>), CancellableLeaf("pass")>>,
     <<Composite("sequential", <<2>>), StuckLeaf("pass")>>,
     <<Composite("parallel", <<2>>), CancellableLeaf("pass")>>}

CancelLiveInit == InitWith(CancelLiveTrees)

\* As FairSpec: every goroutine that can take a step is run.  Nothing
\* obliges the caller to cancel.
CancelFairSpec == CancelLiveInit /\ [][CancelNext]_vars /\ WF_vars(Next)

\* No Execute is running: no channel, no goroutine.
Idle ==
    /\ input = <<>>
    /\ chans = [c \in {} |-> 0]
    /\ tasks = [t \in {} |-> 0]
    /\ wg = [n \in DOMAIN tree |-> 0]
    /\ collectorWg = [n \in DOMAIN tree |-> 0]
    /\ slots = [n \in DOMAIN tree |-> 0]
    /\ panic = "none"
    /\ sent = [c \in {} |-> 0]
    /\ got = [t \in {} |-> 0]
    /\ closers = [c \in {} |-> 0]
    /\ logged = [n \in DOMAIN tree |-> 0]
    /\ fields = [n \in DOMAIN tree |-> [in |-> 0, out |-> 0]]
    /\ arrays = [n \in DOMAIN tree |-> [in |-> <<>>, out |-> <<>>]]

Hooks == {"TrackStarted", "TrackFinished", "TrackInput", "TrackOutput", "TrackPassthrough"}

\* Some code (a leaf, a composite) calls hook h for processor p.
HookCall(h, p) ==
    /\ Len(calls) < MaxCalls
    /\ stats' = CASE h = "TrackStarted" -> TrackStarted(p)
                   [] h = "TrackFinished" -> TrackFinished(p)
                   [] h = "TrackInput" -> TrackInput(p)
                   [] h = "TrackOutput" -> TrackOutput(p)
                   [] h = "TrackPassthrough" -> TrackPassthrough(p)
    /\ calls' = Append(calls, [hook |-> h, p |-> p])
    /\ UNCHANGED <<ctx, logged, fields, arrays, descriptor, built>>
    /\ UNCHANGED <<tree, input, chans, tasks, wg, collectorWg, slots, panic, sent, got, closers>>

\* Two processors, a context with and without a store, an empty store.
HookInit ==
    /\ tree = Flat("sequential", <<"pass">>)
    /\ ctx \in {Background, WithStats(Background)}
    /\ stats = [n \in {} |-> 0]
    /\ descriptor = "none"
    /\ built = "none"
    /\ calls = <<>>
    /\ Idle

HookNext == \E h \in Hooks : \E p \in DOMAIN tree : HookCall(h, p)

HookSpec == HookInit /\ [][HookNext]_vars

-----------------------------------------------------------------------------
\* Construction of a tree from a descriptor

\* A SerializedPipeline: Type, Name and Processors (Config is handed to the
\* factory untouched and left out).
Descriptor(t, n, ps) == [Type |-> t, Name |-> n, Processors |-> ps]

\* The text of ErrInvalidType.
ErrInvalidType == <<"invalid pipeline type">>

\* fmt.Errorf("%s: %v", name, ErrInvalidType)
Errorf(name, err) == <<name, ": ">> \o err

\* A pair (Processor, error): <<>> is nil, <<v>> is v; an error is its text.
Returns(proc, err) == [proc |-> proc, err |-> err]

\* The caller's factory, set by SetProcessorFactory: it makes a leaf of any
\* name but "x", for which it returns an error (and a leaf all the same, as
\* a factory may).
processorFactory(name) ==
    Returns(<<[kind |-> "leaf", Name |-> name]>>,
            IF name = "x" THEN <<"no such processor">> ELSE <<>>)

\* case "processor": the factory's error is replaced by one that names the
\* node, and its processor is dropped.
ProcessorCaseKeepsProc(sp) ==
    LET made == processorFactory(sp.Name)
    IN  IF made.err # <<>>
        THEN Returns(made.proc, Errorf(sp.Name, ErrInvalidType))
        ELSE Returns(made.proc, <<>>)

ProcessorCase(sp) ==
    LET made == processorFactory(sp.Name)
    IN  IF made.err # <<>>
        THEN Returns(<<>>, Errorf(sp.Name, ErrInvalidType))
        ELSE Returns(made.proc, <<>>)

RECURSIVE Pipeline(_)
RECURSIVE RangeProcessors(_, _, _)

\* `for _, proc := range sp.Processors` from child i on, with the children
\* built so far: the first child that fails ends the whole call.
RangeProcessors(sp, i, processors) ==
    IF i > Len(sp.Processors)
    THEN Returns(<<[kind |-> sp.Type, ChainName |-> sp.Name, Processors |-> processors]>>, <<>>)
    ELSE LET child == Pipeline(sp.Processors[i])
         IN  IF child.err # <<>>
             THEN Returns(<<>>, child.err)
             ELSE RangeProcessors(sp, i + 1, Append(processors, child.proc[1]))

\* SerializedPipeline.Pipeline: the switch on sp.Type.
Pipeline(sp) ==
    CASE sp.Type \in {"fanout", "parallel", "sequential"} -> RangeProcessors(sp, 1, <<>>)
      [] sp.Type = "processor" -> ProcessorCase(sp)
      [] OTHER -> Returns(<<>>, ErrInvalidType)

\* The caller calls Pipeline on the descriptor.
Build ==
    /\ built = <<>>
    /\ built' = <<Pipeline(descriptor)>>
    /\ UNCHANGED <<ctx, stats, logged, fields, arrays, descriptor, calls>>
    /\ UNCHANGED <<tree, input, chans, tasks, wg, collectorWg, slots, panic, sent, got, closers>>

\* The values of the type field: the four kinds and an unknown one.
Types == {"fanout", "sequential", "parallel", "processor", "bogus"}

Names == {"a", "x"}

\* Rows of at most MaxKids descriptors of a set.
Rows(ds) == UNION {[1..k -> ds] : k \in 0..MaxKids}

\* Descriptors without children, over rows of those, and over one of those.
Flats == {Descriptor(t, n, <<>>) : t \in Types, n \in Names}

Shallows == {Descriptor(t, n, ps) : t \in Types, n \in Names, ps \in Rows(Flats)}

Deeps == {Descriptor(t, n, <<d>>) : t \in Types, n \in Names, d \in Shallows}

\* A descriptor with its factory set, not built yet.
BuildInit ==
    /\ tree = <<>>
    /\ ctx = Background
    /\ stats = [n \in {} |-> 0]
    /\ descriptor \in Shallows \cup Deeps
    /\ built = <<>>
    /\ calls = <<>>
    /\ Idle

BuildSpec == BuildInit /\ [][Build]_vars

\* Runs under each log level a caller can ask for: none, disabled, debug.
\* calls keeps which one the caller asked for.
LogSetups ==
    {[ctx |-> Background, calls |-> <<>>],
     [ctx |-> WithLogLevel(Background, PipelineLogLevelDisabled),
      calls |-> <<[hook |-> "WithLogLevel", level |-> "PipelineLogLevelDisabled"]>>],
     [ctx |-> WithLogLevel(Background, PipelineLogLevelDebug),
      calls |-> <<[hook |-> "WithLogLevel", level |-> "PipelineLogLevelDebug"]>>]}

LogTrees ==
    {Flat("fanout", <<"pass">>), Flat("sequential", <<"pass">>), Flat("parallel", <<"pass">>),
     <<Composite("fanout", <<2>>), Composite("sequential", <<3>>), Leaf("add1")>>,
     <<Composite("fanout", <<2>>), Composite("sequential", <<>>)>>}

LogInit == \E a \in LogSetups : InitIn(LogTrees, Inputs, a.ctx, a.calls)

LogSpec == LogInit /\ [][Next]_vars

\* The scheduler runs every goroutine that can take a step; every run is
\* finite, so a step that stays possible is eventually taken.
FairSpec == LiveInit /\ [][Next]_vars /\ WF_vars(Next)

-----------------------------------------------------------------------------
\* Notions the properties use

InClosed == chans[RootIn].closed

OutClosed == chans[RootOut].closed

\* Execute of node n has returned.
Returned(n) == Spawned(Exec(n)) /\ tasks[Exec(n)].pc \in {"fin", "done"}

\* The values received from a channel so far, in order.
Delivered(c) == SubSeq(sent[c], 1, Len(sent[c]) - Len(chans[c].buf))

IsPrefix(p, q) == Len(p) <= Len(q) /\ SubSeq(q, 1, Len(p)) = p

RECURSIVE BagOf(_)
BagOf(q) == IF Len(q) = 0 THEN EmptyBag ELSE BagOf(Tail(q)) (+) SetToBag({Head(q)})

RECURSIVE Concat(_)
Concat(qs) == IF Len(qs) = 0 THEN <<>> ELSE Head(qs) \o Concat(Tail(qs))

\* What a leaf with behaviour e writes when run directly on q.
Direct(e, q) == Concat([j \in 1..Len(q) |-> LeafEmit(e, q[j])])

Composites == {n \in Nodes : IsComposite(n)}

\* A tree of Fanout and Sequential composites, each with a child.
FanoutSequentialTree ==
    /\ IsComposite(Root)
    /\ \A n \in Composites : tree[n].kind \in {"fanout", "sequential"} /\ NumKids(n) >= 1

-----------------------------------------------------------------------------
\* C1: in a tree of Fanout and Sequential composites, each with at least one
\* child, whose leaves keep the Processor contract, once the pipeline input
\* is closed the pipeline output is eventually closed and the root's Execute
\* returns, under fair scheduling and with a consumer that keeps receiving.
C1_ClosureLiveness ==
    (FanoutSequentialTree /\ InClosed) ~> (OutClosed /\ Returned(Root) /\ panic = "none")

\* A nested tree has passed a whole input of the greatest length on, closed
\* its output and returned.
C1_Witness ==
    /\ FanoutSequentialTree
    /\ \E n \in Composites : n # Root
    /\ Len(input) = MaxLen
    /\ OutClosed
    /\ Len(sent[RootOut]) = MaxLen
    /\ tasks[Exec(Root)].pc = "done"

-----------------------------------------------------------------------------
\* More notions

\* The values node n's Execute has received, none before it is spawned.
GotBy(n) == IF Spawned(Exec(n)) THEN got[Exec(n)] ELSE <<>>

\* How often x occurs in q.
Occurrences(x, q) == Cardinality({j \in 1..Len(q) : q[j] = x})

RECURSIVE SumOver(_, _)
SumOver(f, n) == IF n = 0 THEN 0 ELSE f[n] + SumOver(f, n - 1)

\* How many times the children of n have received x, all together.
ReceivedByKids(n, x) ==
    SumOver([i \in 1..NumKids(n) |-> Occurrences(x, GotBy(Kids(n)[i]))], NumKids(n))

AllLeaves(n, es) == \A i \in 1..NumKids(n) : tree[Kids(n)[i]].emit \in es

\* The program has stopped: no goroutine, caller or consumer can take a step.
Stopped == ~ENABLED Next

\* A Parallel as struct literals and SerializedPipeline.Pipeline build it.
ParallelRoot(least) ==
    /\ tree[Root].kind = "parallel"
    /\ NumKids(Root) >= least
    /\ \A i \in 1..NumKids(Root) : tree[Kids(Root)[i]].kind = "leaf"

\* Every child of the root has seen its input closed and closed its output.
KidsClosed ==
    \A i \in 1..NumKids(Root) :
        /\ Returned(Kids(Root)[i])
        /\ chans[tasks[Exec(Kids(Root)[i])].out].closed

-----------------------------------------------------------------------------
\* C2: a Parallel with at least one child meets no runtime failure, and once
\* the pipeline input is closed it does not stop before every child has
\* seen the closure and closed its output, the pipeline output is closed
\* and Execute has returned.
C2_ParallelClosure ==
    ParallelRoot(1) =>
        /\ panic = "none"
        /\ InClosed => (OutClosed /\ Returned(Root) /\ KidsClosed) \/ ~Stopped

\* C3: in a Parallel with two or more pass-through children no input item is
\* received twice, and when the run is over every item was received by
\* exactly one child and the closed output holds the items of the input.
C3_ParallelExclusivity ==
    (ParallelRoot(2) /\ AllLeaves(Root, {"pass"})) =>
        /\ \A j \in 1..Len(input) : ReceivedByKids(Root, input[j]) <= 1
        /\ OutClosed => BagOf(sent[RootOut]) = BagOf(input)
        /\ (InClosed /\ Stopped) =>
               \A j \in 1..Len(input) : ReceivedByKids(Root, input[j]) = 1

-----------------------------------------------------------------------------
\* A composite whose children are all leaves.
FlatRoot(kind, least) ==
    /\ tree[Root].kind = kind
    /\ NumKids(Root) >= least
    /\ \A i \in 1..NumKids(Root) : tree[Kids(Root)[i]].kind = "leaf"

\* C4: in a Fanout every child's input channel carries the pipeline input,
\* item by item in input order: what it has delivered is always a prefix of
\* the input, it is closed only when it was sent the whole input, and when
\* the pipeline output is closed every child's input channel is closed and
\* has delivered the whole input to the child; with pass-through children
\* the closed output was sent N * len(input) items.
C4_FanoutDuplication ==
    FlatRoot("fanout", 1) =>
        /\ \A i \in 1..NumKids(Root) :
              Allocated(ProcInChans(Root, i)) =>
                  /\ IsPrefix(sent[ProcInChans(Root, i)], input)
                  /\ GotBy(Kids(Root)[i]) = Delivered(ProcInChans(Root, i))
                  /\ chans[ProcInChans(Root, i)].closed => sent[ProcInChans(Root, i)] = input
        /\ OutClosed =>
              /\ \A i \in 1..NumKids(Root) :
                    /\ chans[ProcInChans(Root, i)].closed
                    /\ GotBy(Kids(Root)[i]) = input
              /\ AllLeaves(Root, {"pass"}) =>
                    Len(sent[RootOut]) = NumKids(Root) * Len(input)

\* A Fanout of two pass-through children has drained an input of the
\* greatest length and closed its output.
C4_Witness ==
    /\ FlatRoot("fanout", 2)
    /\ AllLeaves(Root, {"pass"})
    /\ Len(input) = MaxLen
    /\ OutClosed
    /\ Len(sent[RootOut]) = 2 * MaxLen

\* What a chain of one-to-one leaves es makes of q.
RECURSIVE Chain(_, _)
Chain(es, q) == IF Len(es) = 0 THEN q ELSE Chain(Tail(es), Direct(Head(es), q))

KidEmits(n) == [i \in 1..NumKids(n) |-> tree[Kids(n)[i]].emit]

\* C5: a Sequential of one-to-one children sends to the pipeline output the
\* images of the input items under the children in turn, in input order:
\* always a prefix of that sequence, and the whole of it once the output is
\* closed.
C5_SequentialOrder ==
    (FlatRoot("sequential", 1) /\ AllLeaves(Root, {"pass", "add1", "add10", "add20"})) =>
        /\ IsPrefix(sent[RootOut], Chain(KidEmits(Root), input))
        /\ OutClosed => sent[RootOut] = Chain(KidEmits(Root), input)

\* Two "add 1" leaves in sequence have turned 1, 2, ... into 3, 4, ...
C5_Witness ==
    /\ FlatRoot("sequential", 2)
    /\ AllLeaves(Root, {"add1"})
    /\ Len(input) = MaxLen
    /\ OutClosed
    /\ sent[RootOut] = [j \in 1..MaxLen |-> j + 2]

\* C6: Execute of a composite without children closes its output once, by
\* itself, before it returns; it receives nothing from its input, makes no
\* channel and spawns no goroutine.
C6_ZeroChildren ==
    \A n \in Composites :
        (NumKids(n) = 0 /\ Spawned(Exec(n))) =>
            /\ panic = "none"
            /\ Delivered(tasks[Exec(n)].in) = <<>>
            /\ \A c \in DOMAIN chans : c.n # n
            /\ \A t \in DOMAIN tasks : t.n = n => t = Exec(n)
            /\ closers[tasks[Exec(n)].out] \in {<<>>, <<Exec(n)>>}
            /\ Returned(n) <=> closers[tasks[Exec(n)].out] = <<Exec(n)>>

\* A composite without children has returned with its output closed while
\* the whole input is still queued on the pipeline input.
C6_Witness ==
    /\ NumKids(Root) = 0
    /\ IsComposite(Root)
    /\ Returned(Root)
    /\ OutClosed
    /\ Len(input) = MaxLen
    /\ chans[RootIn].buf = input
    /\ InClosed

-----------------------------------------------------------------------------
\* The values sent on a channel, none before it is made.
SentOn(c) == IF Allocated(c) THEN sent[c] ELSE <<>>

\* The goroutines Execute of n spawned for itself (not its children).
Helpers(n) == {t \in DOMAIN tasks : t.n = n /\ t.r # "exec"}

\* The channels Execute of n made.
Internal(n) == {c \in DOMAIN chans : c.n = n}

\* Every processor of the tree keeps the Processor contract: the leaves do,
\* and no composite is without children (such a composite closes its output
\* and leaves its input unread).
AbidingTree == \A n \in Composites : NumKids(n) >= 1

\* C7: a composite with children closes its output only when its input is
\* closed and drained, every child has returned, every goroutine it spawned
\* is over, no item is left in a channel it made, and the output was sent
\* every item the children emitted.
C7_NoPrematureClose ==
    \A n \in Composites :
        (AbidingTree /\ Spawned(Exec(n)) /\ chans[tasks[Exec(n)].out].closed) =>
            /\ chans[tasks[Exec(n)].in].closed
            /\ chans[tasks[Exec(n)].in].buf = <<>>
            /\ \A i \in 1..NumKids(n) :
                  Spawned(Exec(Kids(n)[i])) /\ tasks[Exec(Kids(n)[i])].pc = "done"
            /\ \A t \in Helpers(n) : tasks[t].pc = "done" /\ tasks[t].todo = <<>>
            /\ \A c \in Internal(n) : chans[c].buf = <<>>
            /\ Len(sent[tasks[Exec(n)].out]) =
                  IF tree[n].kind = "sequential"
                  THEN Len(SentOn(ProcOutChans(n, NumKids(n))))
                  ELSE SumOver([i \in 1..NumKids(n) |-> Len(SentOn(ProcOutChans(n, i)))],
                               NumKids(n))

\* A Fanout of two children and a Sequential inside a Fanout have closed
\* their outputs after a whole input.
C7_Witness ==
    /\ FanoutSequentialTree
    /\ NumKids(Root) = 2
    /\ Len(input) = MaxLen
    /\ OutClosed
    /\ Len(sent[RootOut]) >= MaxLen

\* Who may close a channel: the caller the pipeline input, the root the
\* pipeline output, the dispatcher a Fanout child's input, the feeder the
\* entry channel, Execute its collector, a child its own output.
Owner(c) ==
    CASE c.t = "input" -> Producer
      [] c.t = "output" -> Exec(Root)
      [] c.t = "procInput" -> T("dispatcher", c.n, 0)
      [] c.t = "entryChannel" -> T("feeder", c.n, 0)
      [] c.t = "fanoutCollector" -> Exec(c.n)
      [] c.t = "procOutput" -> Exec(Kids(c.n)[c.i])

\* C8: every channel is closed at most once and only by its owner, nothing
\* is sent on a closed channel, and no goroutine of a composite closes the
\* input the composite was given.
C8_CloseOwnership ==
    /\ panic \notin {"send on closed channel", "close of closed channel"}
    /\ \A c \in DOMAIN chans :
          /\ Len(closers[c]) <= 1
          /\ \A j \in 1..Len(closers[c]) : closers[c][j] = Owner(c)
    /\ \A n \in Composites :
          Spawned(Exec(n)) =>
              \A j \in 1..Len(closers[tasks[Exec(n)].in]) :
                  closers[tasks[Exec(n)].in][j].n # n

\* A run of nested composites in which every channel made was closed.
C8_Witness ==
    /\ FanoutSequentialTree
    /\ \E n \in Composites : n # Root
    /\ Cardinality(DOMAIN chans) >= 5
    /\ \A c \in DOMAIN chans : Len(closers[c]) = 1
    /\ Len(input) = MaxLen

\* The values child i of the root emits for the whole input.
Emissions(i) == Direct(tree[Kids(Root)[i]].emit, input)

ValuesOf(q) == {q[j] : j \in 1..Len(q)}

\* The items of q that are among vs, in the order of q.
RECURSIVE Restrict(_, _)
Restrict(q, vs) ==
    IF Len(q) = 0 THEN <<>>
    ELSE IF Head(q) \in vs THEN <<Head(q)>> \o Restrict(Tail(q), vs)
    ELSE Restrict(Tail(q), vs)

\* The children of the root emit values that tell them apart.
Distinguishable ==
    \A i, j \in 1..NumKids(Root) :
        i # j => ValuesOf(Emissions(i)) \cap ValuesOf(Emissions(j)) = {}

\* C9: what a Fanout sends to the pipeline output is an interleaving of its
\* children's emissions: the output items that came from one child are
\* always a prefix of what that child sent, every output item came from a
\* child, and once the output is closed each child's emissions are in the
\* output in full, each item once.
C9_FanoutMerge ==
    (FlatRoot("fanout", 1) /\ Distinguishable) =>
        /\ \A i \in 1..NumKids(Root) :
              IsPrefix(Restrict(sent[RootOut], ValuesOf(Emissions(i))),
                       SentOn(ProcOutChans(Root, i)))
        /\ \A j \in 1..Len(sent[RootOut]) :
              \E i \in 1..NumKids(Root) : sent[RootOut][j] \in ValuesOf(Emissions(i))
        /\ OutClosed =>
              \A i \in 1..NumKids(Root) :
                  /\ Restrict(sent[RootOut], ValuesOf(Emissions(i))) = Emissions(i)
                  /\ SentOn(ProcOutChans(Root, i)) = Emissions(i)

\* Two children's emissions were merged with the second child's first item
\* ahead of the first child's.
C9_Witness ==
    /\ FlatRoot("fanout", 2)
    /\ Distinguishable
    /\ Len(input) = MaxLen
    /\ OutClosed
    /\ Len(sent[RootOut]) = 2 * MaxLen
    /\ sent[RootOut][1] \in ValuesOf(Emissions(2))

\* A composite around one leaf, or the leaf run directly.
OneLeaf(kinds) ==
    \/ tree[Root].kind = "leaf"
    \/ FlatRoot(tree[Root].kind, 1) /\ NumKids(Root) = 1 /\ tree[Root].kind \in kinds

TheLeaf == IF tree[Root].kind = "leaf" THEN tree[Root].emit ELSE tree[Kids(Root)[1]].emit

\* A composite of one of the kinds around one child does what the child
\* does when run directly: the closed output holds the child's items (in the
\* child's order for Sequential), and the run does not stop with the input
\* closed and the output open.
SingleChildEquivalence(kinds) ==
    OneLeaf(kinds) =>
        /\ OutClosed =>
              /\ BagOf(sent[RootOut]) = BagOf(Direct(TheLeaf, input))
              /\ tree[Root].kind \in {"leaf", "sequential"} =>
                    sent[RootOut] = Direct(TheLeaf, input)
        /\ (InClosed /\ Stopped) => OutClosed

\* C10: Sequential{c}, Fanout{c} and Parallel{c} each produce what c
\* produces when run directly, and close the output as c does.
C10_SingleChildEquivalence == SingleChildEquivalence(Kinds)

\* The same for Sequential{c} and Fanout{c} alone.
FanoutSequentialSingleChild == SingleChildEquivalence({"fanout", "sequential"})

-----------------------------------------------------------------------------
Dispatcher(n) == T("dispatcher", n, 0)

\* The dispatcher of n is blocked: its next send is to a full channel.
DispatcherBlockedOn(n, c) ==
    /\ Spawned(Dispatcher(n))
    /\ tasks[Dispatcher(n)].pc = "send"
    /\ Deref(Head(tasks[Dispatcher(n)].todo).ch) = c
    /\ Len(chans[c].buf) = chans[c].cap

\* C11: in a Fanout a child's input channel never holds more than its
\* capacity; the dispatcher hands each item to the children in index order
\* (a child of lower index has been sent as many items as one of higher
\* index, or one more) and has taken item k+1 from the pipeline input only
\* when item k was sent to every child; so while it is blocked on a full
\* channel no child has been sent an item past the one it is blocked with.
C11_FanoutBackpressure ==
    FlatRoot("fanout", 1) =>
        /\ \A i \in 1..NumKids(Root) :
              Allocated(ProcInChans(Root, i)) =>
                  /\ chans[ProcInChans(Root, i)].cap = ProcChanCap
                  /\ Len(chans[ProcInChans(Root, i)].buf) <= ProcChanCap
        /\ Spawned(Dispatcher(Root)) =>
              /\ \A i \in 1..NumKids(Root) :
                    /\ IsPrefix(sent[ProcInChans(Root, i)], got[Dispatcher(Root)])
                    /\ Len(got[Dispatcher(Root)]) <= Len(sent[ProcInChans(Root, i)]) + 1
              /\ \A i, j \in 1..NumKids(Root) :
                    i < j => Len(sent[ProcInChans(Root, j)]) <= Len(sent[ProcInChans(Root, i)])
              /\ \A i \in 1..NumKids(Root) :
                    DispatcherBlockedOn(Root, ProcInChans(Root, i)) =>
                        \A j \in 1..NumKids(Root) :
                            Len(sent[ProcInChans(Root, j)]) =
                                Len(sent[ProcInChans(Root, i)]) + (IF j < i THEN 1 ELSE 0)

\* The dispatcher is blocked on the first child's full input channel while
\* the second child has received everything it was sent and has not been
\* sent the item the dispatcher holds.
C11_Witness ==
    /\ FlatRoot("fanout", 2)
    /\ DispatcherBlockedOn(Root, ProcInChans(Root, 1))
    /\ Len(chans[ProcInChans(Root, 1)].buf) = ProcChanCap
    /\ chans[ProcInChans(Root, 2)].buf = <<>>
    /\ Len(sent[ProcInChans(Root, 2)]) = ProcChanCap
    /\ Len(got[Dispatcher(Root)]) = ProcChanCap + 1

\* Fanout nodes with children.
Fanouts == {n \in Composites : tree[n].kind = "fanout" /\ NumKids(n) >= 1}

Terminated(t) == Spawned(t) /\ tasks[t].pc = "done"

\* C12: in a Fanout with children the collector channel is closed only
\* when the dispatcher, every child's Execute and every merge task have
\* terminated; the collector task ends only when the collector channel is
\* closed and empty; the output is closed only when the collector task has
\* terminated; the collector channel and the output are closed by Execute.
C12_FanoutShutdownOrder ==
    \A n \in Fanouts :
        Allocated(Collector(n)) =>
            /\ chans[Collector(n)].closed =>
                  /\ Terminated(Dispatcher(n))
                  /\ \A i \in 1..NumKids(n) :
                        Terminated(Exec(Kids(n)[i])) /\ Terminated(T("merge", n, i))
                  /\ closers[Collector(n)] = <<Exec(n)>>
            /\ tasks[T("collector", n, 0)].pc \in {"fin", "done"} =>
                  chans[Collector(n)].closed /\ chans[Collector(n)].buf = <<>>
            /\ chans[tasks[Exec(n)].out].closed =>
                  /\ Terminated(T("collector", n, 0))
                  /\ chans[Collector(n)].closed
                  /\ closers[tasks[Exec(n)].out] = <<Exec(n)>>

\* A Fanout of two children has closed its collector channel after a whole
\* input while its collector task is still running and its output open.
C12_Witness ==
    /\ FlatRoot("fanout", 2)
    /\ Len(input) = MaxLen
    /\ Allocated(Collector(Root))
    /\ chans[Collector(Root)].closed
    /\ tasks[T("collector", Root, 0)].pc = "recv"
    /\ ~OutClosed

-----------------------------------------------------------------------------
\* The nodes under n, n included.
RECURSIVE Under(_)
Under(n) == {n} \cup UNION {Under(Kids(n)[i]) : i \in 1..NumKids(n)}

Leaves == {n \in Nodes : tree[n].kind = "leaf"}

\* No goroutine, caller or consumer can take a step, and nobody can cancel.
CancelStopped == ~ENABLED CancelNext

\* Every leaf honours cancellation, under Fanout and Sequential composites.
HonouringTree ==
    /\ FanoutSequentialTree
    /\ \A l \in Leaves : tree[l].mode = "honours"

\* Every leaf stops sending once the context is cancelled and keeps reading
\* its input, under Fanout and Sequential composites.
DrainingTree ==
    /\ FanoutSequentialTree
    /\ \A l \in Leaves : tree[l].mode = "drains"

\* C13, with leaves that keep reading: once the context is cancelled and the
\* pipeline input closed, every Fanout and Sequential eventually returns and
\* the pipeline output is closed, whatever is left on the pipeline input.
C13_DrainingRunEnds ==
    (DrainingTree /\ Cancelled /\ InClosed) ~>
        (OutClosed /\ Returned(Root) /\ \A n \in Composites : Returned(n))

\* A run cancelled in mid-stream has ended: every leaf read the whole input
\* and the closed output holds fewer items than the input.
C13_Witness ==
    /\ DrainingTree
    /\ Cancelled
    /\ Len(input) = MaxLen
    /\ \A l \in Leaves : Len(GotBy(l)) = MaxLen
    /\ OutClosed
    /\ tasks[Exec(Root)].pc = "done"
    /\ Len(sent[RootOut]) \in 1..(MaxLen - 1)

\* C13: with leaves that honour cancellation, once the context is cancelled
\* and the pipeline input closed the run does not stop before the pipeline
\* output is closed and the root's Execute has returned, however many items
\* the caller wrote.
C13_CancelledRunEnds ==
    (HonouringTree /\ Cancelled /\ InClosed /\ CancelStopped) =>
        (OutClosed /\ Returned(Root))

\* Some leaf under n never closes its output.
EnclosesStuck(n) == \E l \in Under(n) : tree[l].kind = "leaf" /\ tree[l].mode = "stuck"

\* C14: a Fanout or Sequential above a leaf that never closes its output
\* never returns and never has its output closed, whether or not the
\* context is cancelled and the pipeline input closed; so it is for every
\* composite above that leaf.
C14_StuckLeafWedges ==
    \A n \in Composites :
        (EnclosesStuck(n) /\ Spawned(Exec(n))) =>
            /\ ~Returned(n)
            /\ ~chans[tasks[Exec(n)].out].closed
            /\ closers[tasks[Exec(n)].out] = <<>>

\* A Fanout inside a Sequential, above a stuck leaf: the context is
\* cancelled, the pipeline input closed, and nothing can move; both
\* composites are waiting and the pipeline output is open.
C14_Witness ==
    /\ \E n \in Composites : n # Root /\ EnclosesStuck(n) /\ Spawned(Exec(n))
                               /\ tasks[Exec(n)].pc = "wait"
    /\ EnclosesStuck(Root)
    /\ tasks[Exec(Root)].pc = "wait"
    /\ Cancelled
    /\ InClosed
    /\ Len(input) = MaxLen
    /\ CancelStopped
    /\ ~OutClosed

-----------------------------------------------------------------------------
\* The channels Execute of n was given.
Args(n) == {tasks[Exec(n)].in, tasks[Exec(n)].out}

\* The channel a task is receiving from, sending to or closing.
Uses(t) ==
    (IF tasks[t].pc = "recv" THEN {tasks[t].in}
     ELSE IF tasks[t].pc \in {"send", "close"} THEN {Head(tasks[t].todo).ch}
     ELSE {}) \ {NoChan}

\* Task t of one Execute call uses a channel that the call neither made nor
\* was given.
Foreign(t, c) == c \notin (Internal(t.n) \cup Args(t.n))

\* Two Execute calls on one instance.
SameInstanceTwice == \E n, m \in Composites : n # m /\ Inst(n) = Inst(m)

\* C15: a task uses a channel foreign to its Execute call only when the
\* channel was made by another call on the same instance; calls on distinct
\* instances hold distinct slices in their fields and never close a channel
\* twice, close a nil channel or send on a closed one.
C15_SharedInstanceOnly ==
    /\ \A t \in DOMAIN tasks : \A c \in Uses(t) :
          Foreign(t, c) =>
              /\ c.n \in Composites
              /\ c.n # t.n
              /\ Inst(c.n) = Inst(t.n)
    /\ ~SameInstanceTwice =>
          /\ panic \in {"none", "index out of range"}
          /\ \A n \in Composites :
                /\ fields[n].in \in {0, n}
                /\ fields[n].out \in {0, n}
                /\ \A c \in DOMAIN chans : Len(closers[c]) <= 1

\* Two calls on one Sequential: the second call was given an empty input,
\* and its drain task has sent an item of the first call's input to the
\* second call's output.
C15_Witness ==
    /\ SameInstanceTwice
    /\ tree[Root].kind = "sequential"
    /\ Len(input) = RaceLen
    /\ Spawned(T("drain", 2, 0))
    /\ Foreign(T("drain", 2, 0), tasks[T("drain", 2, 0)].in)
    /\ tasks[T("drain", 2, 0)].in = ProcOutput(Root, 1)
    /\ Len(sent[OutputOf(2)]) >= 1

\* Two calls on one Fanout: the dispatcher of one call has closed the child
\* input that the other call made, and the other call's dispatcher, closing
\* it again, has panicked.
DoubleClose ==
    /\ SameInstanceTwice
    /\ tree[Root].kind = "fanout"
    /\ panic = "close of closed channel"
    /\ \E c \in DOMAIN chans : c.t = "procInput" /\ closers[c] # <<>> /\ closers[c][1].n # c.n

-----------------------------------------------------------------------------
\* The store's entry for the instance that node n is a call of.
StatsOf(n) == getStats(stats, Inst(n))

\* Execute of n is past its first statements.
Entered(n) == Spawned(Exec(n)) /\ tasks[Exec(n)].pc # "start"

\* C16: with a store registered, every composite's Execute has recorded
\* Started once as soon as it is entered and never again; Finished is
\* recorded at most once, only when every child and every goroutine of the
\* Execute has terminated, and it is recorded when the output is closed by
\* Execute and when Execute has returned, whatever the number of children.
C16_PairedTracking ==
    HasStatDB =>
        \A n \in Composites :
            /\ StatsOf(n).Started = (IF Entered(n) THEN 1 ELSE 0)
            /\ StatsOf(n).Finished <= 1
            /\ StatsOf(n).Finished = 1 =>
                  /\ wg[n] = 0 /\ collectorWg[n] = 0
                  /\ \A t \in Helpers(n) : Terminated(t)
                  /\ \A i \in 1..NumKids(n) : Terminated(Exec(Kids(n)[i]))
            /\ Spawned(Exec(n)) =>
                  /\ Exec(n) \in ValuesOf(closers[tasks[Exec(n)].out]) => StatsOf(n).Finished = 1
                  /\ Returned(n) => StatsOf(n).Finished = 1

\* The same for composites with children only.
PairedTrackingWithChildren ==
    HasStatDB =>
        \A n \in Composites :
            NumKids(n) >= 1 =>
                /\ StatsOf(n).Started = (IF Entered(n) THEN 1 ELSE 0)
                /\ StatsOf(n).Finished <= 1
                /\ StatsOf(n).Finished = 1 =>
                      /\ wg[n] = 0 /\ collectorWg[n] = 0
                      /\ \A t \in Helpers(n) : Terminated(t)
                      /\ \A i \in 1..NumKids(n) : Terminated(Exec(Kids(n)[i]))
                /\ Spawned(Exec(n)) =>
                      /\ Exec(n) \in ValuesOf(closers[tasks[Exec(n)].out]) =>
                            StatsOf(n).Finished = 1
                      /\ Returned(n) => StatsOf(n).Finished = 1

-----------------------------------------------------------------------------
\* How many times hook h was called for processor p.
Called(h, p) == Cardinality({j \in 1..Len(calls) : calls[j] = [hook |-> h, p |-> p]})

\* C17: with a store registered, each counter of each processor counts the
\* calls of its own hook for that processor: Input those of TrackInput,
\* Output those of TrackOutput, Passthrough those of TrackPassthrough, and
\* Failed none of these.
C17_OwnCounterOnly ==
    HasStatDB =>
        \A p \in DOMAIN tree :
            /\ getStats(stats, p).Input = Called("TrackInput", p)
            /\ getStats(stats, p).Output = Called("TrackOutput", p)
            /\ getStats(stats, p).Passthrough = Called("TrackPassthrough", p)
            /\ getStats(stats, p).Failed = 0

\* What the hooks do: TrackPassthrough counts in Output, and nothing counts
\* in Passthrough; without a store nothing is recorded.
CountersAsCoded ==
    /\ HasStatDB =>
          \A p \in DOMAIN tree :
              /\ getStats(stats, p).Input = Called("TrackInput", p)
              /\ getStats(stats, p).Output =
                    Called("TrackOutput", p) + Called("TrackPassthrough", p)
              /\ getStats(stats, p).Passthrough = 0
              /\ getStats(stats, p).Failed = 0
    /\ ~HasStatDB => DOMAIN stats = {}

-----------------------------------------------------------------------------
\* The log level the caller asked for.
Asked == IF calls = <<>> THEN "unset" ELSE calls[1].level

\* C18: a composite's Execute, once entered, has printed exactly one line
\* when the caller set the debug level and none when the caller set no
\* level or set PipelineLogLevelDisabled; before it is entered it has
\* printed none.
C18_LevelGated ==
    \A n \in Composites :
        logged[n] = IF Entered(n) /\ Asked = "PipelineLogLevelDebug" THEN 1 ELSE 0

\* What Log does: one line per entered composite when any level equal to 0
\* is set, the disabled level included, and none when no level is set.
LoggedAsCoded ==
    \A n \in Composites :
        logged[n] = IF Entered(n) /\ Asked # "unset" THEN 1 ELSE 0

-----------------------------------------------------------------------------
\* Pipeline has returned.
Built == built # <<>>

KnownComposite(d) == d.Type \in {"fanout", "sequential", "parallel"}

\* A node that cannot be built: an unknown type, or a processor the factory
\* refuses.
BadType(d) == ~KnownComposite(d) /\ d.Type # "processor"

FactoryFails(d) == d.Type = "processor" /\ processorFactory(d.Name).err # <<>>

RECURSIVE NodesOf(_)
\* Every node of a descriptor, at any depth.
NodesOf(d) == {d} \cup UNION {NodesOf(d.Processors[i]) : i \in 1..Len(d.Processors)}

RECURSIVE TreeNodesOf(_)
\* The nodes of a descriptor that are not below a processor node.
TreeNodesOf(d) ==
    {d} \cup (IF d.Type # "processor"
              THEN UNION {TreeNodesOf(d.Processors[i]) : i \in 1..Len(d.Processors)}
              ELSE {})

RECURSIVE Mirrors(_, _)
\* Processor p has the kinds, chain names and child order of descriptor d.
Mirrors(d, p) ==
    IF KnownComposite(d)
    THEN /\ p.kind = d.Type
         /\ p.ChainName = d.Name
         /\ Len(p.Processors) = Len(d.Processors)
         /\ \A i \in 1..Len(d.Processors) : Mirrors(d.Processors[i], p.Processors[i])
    ELSE p = processorFactory(d.Name).proc[1]

\* What the result must be when the nodes in ns are the ones that count.
FailsFast(ns) ==
    LET bad == {d \in ns : BadType(d)}
        refused == {d \in ns : FactoryFails(d)}
        r == built[1]
    IN  /\ r.err # <<>> => r.proc = <<>>
        /\ bad \cup refused # {} => r.err # <<>>
        /\ r.err # <<>> =>
              \/ bad # {} /\ r.err = ErrInvalidType
              \/ \E d \in refused : r.err = Errorf(d.Name, ErrInvalidType)
        /\ bad = {} /\ refused # {} =>
              \E d \in refused : r.err = Errorf(d.Name, ErrInvalidType)
        /\ bad \cup refused = {} =>
              /\ r.err = <<>>
              /\ r.proc # <<>>
              /\ Mirrors(descriptor, r.proc[1])

\* C19 as claimed: Pipeline returns (nil, error) whenever any node at any
\* depth has an unknown type or is a processor the factory refuses, the
\* error naming the node in the factory case; otherwise it returns a tree
\* that mirrors the descriptor; never a tree together with an error.
C19_FailsOnAnyNode == Built => FailsFast(NodesOf(descriptor))

\* C19: the same for the nodes that are not below a processor node: the
\* children of a processor node are never looked at.
C19_ConstructionFailsFast == Built => FailsFast(TreeNodesOf(descriptor))

\* A refused processor two levels down: the whole call returns nil and the
\* error that names it.
C19_Witness ==
    /\ Built
    /\ KnownComposite(descriptor)
    /\ Len(descriptor.Processors) = 1
    /\ KnownComposite(descriptor.Processors[1])
    /\ Len(descriptor.Processors[1].Processors) = 2
    /\ ~FactoryFails(descriptor.Processors[1].Processors[1])
    /\ descriptor.Processors[1].Processors[1].Type = "processor"
    /\ FactoryFails(descriptor.Processors[1].Processors[2])
    /\ built[1] = Returns(<<>>, Errorf("x", ErrInvalidType))

====
